---- MODULE Spec2Model ----
(***************************************************************************)
(* Model of the permit text-extraction and row-parsing code of the Fields  *)
(* application:                                                            *)
(*   - SummarizePermit._extract_basic_summary (utils/summarize_permit.py), *)
(*     the line-by-line slot/field extractor;                              *)
(*   - extract_date, extract_time, extract_cost and parse_spreadsheet_row  *)
(*     (utils/helpers.py), the positional row parser.                      *)
(* Python strings are TLA+ strings; a character is a string of length 1.   *)
(***************************************************************************)
EXTENDS Integers, Sequences, FiniteSets, TLC

(***************************************************************************)
(* Bounds of the model.                                                    *)
(***************************************************************************)
\* longest document, in lines, that one extraction call iterates over
MaxLines == 5
\* largest max_length cap passed to an extraction call
MaxCap == 4
\* largest number of comma-separated elements of a generated slot line
MaxElems == 6

(***************************************************************************)
(* Python string primitives.                                               *)
(***************************************************************************)
Ch(s, i) == SubSeq(s, i, i)

\* the characters str.strip() removes and the regex class \s matches
Whitespace == {" ", "\t"}

Digits == {"0", "1", "2", "3", "4", "5", "6", "7", "8", "9"}

Letters ==
    {"A", "B", "C", "D", "E", "F", "G", "H", "I", "J", "K", "L", "M",
     "N", "O", "P", "Q", "R", "S", "T", "U", "V", "W", "X", "Y", "Z",
     "a", "b", "c", "d", "e", "f", "g", "h", "i", "j", "k", "l", "m",
     "n", "o", "p", "q", "r", "s", "t", "u", "v", "w", "x", "y", "z"}

RECURSIVE lstrip_from(_, _)
\* index of the first non-whitespace character at or after i (Len(s)+1 if none)
lstrip_from(s, i) ==
    IF i > Len(s) THEN i
    ELSE IF Ch(s, i) \in Whitespace THEN lstrip_from(s, i + 1)
    ELSE i

RECURSIVE rstrip_to(_, _)
\* index of the last non-whitespace character at or before j (0 if none)
rstrip_to(s, j) ==
    IF j < 1 THEN 0
    ELSE IF Ch(s, j) \in Whitespace THEN rstrip_to(s, j - 1)
    ELSE j

\* str.strip(): leading and trailing whitespace removed
strip(s) ==
    LET i == lstrip_from(s, 1)
        j == rstrip_to(s, Len(s))
    IN  IF i > j THEN "" ELSE SubSeq(s, i, j)

RECURSIVE split_from(_, _, _, _)
\* pieces of s from index i on, the current piece having started at index b
split_from(s, sep, b, i) ==
    IF i > Len(s) THEN << SubSeq(s, b, Len(s)) >>
    ELSE IF Ch(s, i) = sep
         THEN << SubSeq(s, b, i - 1) >> \o split_from(s, sep, i + 1, i + 1)
         ELSE split_from(s, sep, b, i + 1)

\* str.split(sep) for a one-character separator: never empty, keeps empty pieces
split(s, sep) == split_from(s, sep, 1, 1)

\* str.find(sub): 0-based index of the first occurrence, -1 if there is none
find(s, sub) ==
    LET hits == { i \in 1..(Len(s) - Len(sub) + 1) :
                    SubSeq(s, i, i + Len(sub) - 1) = sub }
    IN  IF hits = {} THEN 0 - 1
        ELSE (CHOOSE i \in hits : \A j \in hits : i <= j) - 1

\* s[0:n], a negative n counting from the end
slice_to(s, n) ==
    IF n >= 0 THEN SubSeq(s, 1, IF n < Len(s) THEN n ELSE Len(s))
    ELSE SubSeq(s, 1, IF Len(s) + n > 0 THEN Len(s) + n ELSE 0)


(***************************************************************************)
(* Regular-expression matching as re.match does it: anchored at the start  *)
(* of the line, free at its end.  A matcher maps the set of positions a    *)
(* partial match can have reached to the set it can reach next, so every   *)
(* choice of a bounded or greedy repetition is followed.                   *)
(***************************************************************************)
\* a literal text
re_lit(s, P, lit) ==
    { p + Len(lit) : p \in { q \in P : /\ q + Len(lit) - 1 <= Len(s)
                                       /\ SubSeq(s, q, q + Len(lit) - 1) = lit } }

\* a character class repeated lo to hi times
re_rep(s, P, class, lo, hi) ==
    UNION { { p + k : k \in { n \in lo..hi :
                                \A j \in 0..(n - 1) : /\ p + j <= Len(s)
                                                      /\ Ch(s, p + j) \in class } }
            : p \in P }

\* [A-Za-z]{3}, [A-Za-z]{3} \d{1,2}, \d{4} \d{1,2}:\d{2} (?:AM|PM)
re_timestamp(s, P) ==
    LET p1  == re_rep(s, P, Letters, 3, 3)
        p2  == re_lit(s, p1, ", ")
        p3  == re_rep(s, p2, Letters, 3, 3)
        p4  == re_lit(s, p3, " ")
        p5  == re_rep(s, p4, Digits, 1, 2)
        p6  == re_lit(s, p5, ", ")
        p7  == re_rep(s, p6, Digits, 4, 4)
        p8  == re_lit(s, p7, " ")
        p9  == re_rep(s, p8, Digits, 1, 2)
        p10 == re_lit(s, p9, ":")
        p11 == re_rep(s, p10, Digits, 2, 2)
        p12 == re_lit(s, p11, " ")
    IN  re_lit(s, p12, "AM") \cup re_lit(s, p12, "PM")

RECURSIVE re_more_timestamps(_, _)
\* (?: <timestamp>)* : zero or more further timestamps, each after one space
re_more_timestamps(s, P) ==
    LET Q == re_timestamp(s, re_lit(s, P, " "))
    IN  IF Q \subseteq P THEN P ELSE re_more_timestamps(s, P \cup Q)

\* date_time_pattern without the whitespace required after the last AM/PM
date_time_pattern_no_trailing(line) ==
    re_more_timestamps(line, re_timestamp(line, {1})) # {}

\* re.match(date_time_pattern, line)
date_time_pattern(line) ==
    re_rep(line, re_more_timestamps(line, re_timestamp(line, {1})),
           Whitespace, 1, 1) # {}

\* field_name_pattern matched against the whole line, as re.fullmatch
field_name_pattern_to_end(line) ==
    (Len(line) + 1) \in
        re_lit(line, re_rep(line, {1}, Letters \cup Whitespace, 1, Len(line)),
               " (Athletic Field Use)")

\* re.match(field_name_pattern, line): ^[A-Za-z\s]+ \(Athletic Field Use\)
field_name_pattern(line) ==
    re_lit(line, re_rep(line, {1}, Letters \cup Whitespace, 1, Len(line)),
           " (Athletic Field Use)") # {}

(***************************************************************************)
(* Python values of the extractor: None, and a dict that keeps the order   *)
(* in which its keys were first inserted.                                  *)
(***************************************************************************)
\* None and a string x are told apart as <<>> and <<x>>
None == << >>
Some(x) == << x >>

\* a dict is the sequence of its items, in insertion order
dict_keys(d) == [ i \in 1..Len(d) |-> d[i].key ]
dict_has(d, k) == \E i \in 1..Len(d) : Some(d[i].key) = k
dict_index(d, k) == CHOOSE i \in 1..Len(d) : Some(d[i].key) = k
dict_get(d, k) == d[dict_index(d, k)].val

\* dict_set moving the key of an existing item to the last place
dict_set_moves_last(d, k, v) ==
    Append(SelectSeq(d, LAMBDA item : item.key # k), [ key |-> k, val |-> v ])

\* d[k] = v : an existing key keeps its place, a new key goes last
dict_set(d, k, v) ==
    IF dict_has(d, Some(k))
    THEN [ d EXCEPT ![dict_index(d, Some(k))] = [ key |-> k, val |-> v ] ]
    ELSE Append(d, [ key |-> k, val |-> v ])

(***************************************************************************)
(* State.  The first seven variables are one call of                       *)
(* SummarizePermit._extract_basic_summary: its argument max_length, its    *)
(* locals, the lines of text.split('\n') the loop has iterated over so     *)
(* far, and where the call stands.  call is the latest call of a row       *)
(* parser function with its outcome.  previous is what an earlier call of  *)
(* the extractor was given and returned.  The remaining variables are one  *)
(* run of the summarize_directory command of main.py.                      *)
(***************************************************************************)
VARIABLES
    pc,                     \* "idle", "loop", "returned" or "KeyError"
    max_length,             \* the cap argument
    lines,                  \* the lines iterated over so far, untrimmed
    current_field_name,     \* None or Some(header line)
    field_date_time_slots,  \* dict: header line -> list of slot lines
    date_time_slots,        \* list of slot lines
    field_names,            \* list of header lines
    call,                   \* the latest row parser call
    previous,               \* an earlier extraction call and its result
    dir_pc,                 \* where summarize_directory stands
    files,                  \* sorted(files): the files of the directory
    file_idx,               \* position in files of the file being summarized
    summaries,              \* the results of the files summarized so far
    dir_log,                \* what the command's logger was given
    dir_exc,                \* the exception on its way to the handler, or ""
    workbook,               \* dict: sheet name -> list of rows
    workbook_saved,         \* save_to_excel has written the workbook
    sum_pc,                 \* where a summarize_from_text/_file call stands
    sum_call,               \* the arguments of that call
    sum_result,             \* None or Some(the dict the call returned)
    worksheets,             \* Spreadsheet: dict sheet name -> its list object
    current_sheet,          \* Spreadsheet: name of the current sheet
    data,                   \* Spreadsheet: the list object self.data refers to
    lists,                  \* the rows of every list object, by object
    headers,                \* Spreadsheet: the column headers
    sheet_call              \* the latest Spreadsheet call and its outcome

extract_vars == << pc, max_length, lines, current_field_name,
                   field_date_time_slots, date_time_slots, field_names >>

dir_vars == << dir_pc, files, file_idx, summaries, dir_log, dir_exc, workbook,
               workbook_saved >>

sum_vars == << sum_pc, sum_call, sum_result >>

sheet_vars == << worksheets, current_sheet, data, lists, headers, sheet_call >>

vars == << pc, max_length, lines, current_field_name,
           field_date_time_slots, date_time_slots, field_names, call,
           previous, dir_pc, files, file_idx, summaries, dir_log, dir_exc,
           workbook, workbook_saved, sum_pc, sum_call, sum_result,
           worksheets, current_sheet, data, lists, headers, sheet_call >>

(***************************************************************************)
(* Lines a permit document is made of (before trimming).                   *)
(***************************************************************************)
EastFieldLine == "  East Field (Athletic Field Use)"
WestFieldLine == "West Field (Athletic Field Use) Permit"
SatSlotLine == "Sat, Dec 6, 2025 8:00 AM Sat, Dec 6, 2025 1:00 PM 1 $25"
SunSlotLine == "Sun, Dec 7, 2025 9:00 AM $5 "
BareStampLine == "Sat, Dec 6, 2025 8:00 AM"
BlankLine == "  "

DocLines == { EastFieldLine, WestFieldLine, SatSlotLine, SunSlotLine,
              BareStampLine, BlankLine }

(***************************************************************************)
(* SummarizePermit._extract_basic_summary                                  *)
(***************************************************************************)
\* under_cap with the comparison off by one
under_cap_inclusive(lst, cap) == Len(lst) <= cap

\* len(lst) < max_length, the cap test of both branches
under_cap(lst, cap) == Len(lst) < cap

\* RecordSlot putting the line at the front of the flat list
RecordSlot_flat_front(line) ==
    /\ date_time_slots' = << line >> \o date_time_slots
    /\ IF dict_has(field_date_time_slots, current_field_name)
       THEN /\ field_date_time_slots' =
                  dict_set(field_date_time_slots, current_field_name[1],
                           Append(dict_get(field_date_time_slots, current_field_name),
                                  line))
            /\ pc' = "loop"
       ELSE /\ field_date_time_slots' = field_date_time_slots
            /\ pc' = "KeyError"
    /\ UNCHANGED << field_names, current_field_name >>

\* RecordSlot dropping a slot line that has no current field
RecordSlot_drop_orphan(line) ==
    /\ IF dict_has(field_date_time_slots, current_field_name)
       THEN /\ date_time_slots' = Append(date_time_slots, line)
            /\ field_date_time_slots' =
                  dict_set(field_date_time_slots, current_field_name[1],
                           Append(dict_get(field_date_time_slots, current_field_name),
                                  line))
       ELSE UNCHANGED << date_time_slots, field_date_time_slots >>
    /\ pc' = "loop"
    /\ UNCHANGED << field_names, current_field_name >>

\* RecordSlot putting the line at the front of the list of its field
RecordSlot_field_front(line) ==
    /\ date_time_slots' = Append(date_time_slots, line)
    /\ IF dict_has(field_date_time_slots, current_field_name)
       THEN /\ field_date_time_slots' =
                  dict_set(field_date_time_slots, current_field_name[1],
                           << line >> \o dict_get(field_date_time_slots,
                                                  current_field_name))
            /\ pc' = "loop"
       ELSE /\ field_date_time_slots' = field_date_time_slots
            /\ pc' = "KeyError"
    /\ UNCHANGED << field_names, current_field_name >>

\* date_time_slots.append(line); field_date_time_slots[current_field_name].append(line)
RecordSlot(line) ==
    /\ date_time_slots' = Append(date_time_slots, line)
    /\ IF dict_has(field_date_time_slots, current_field_name)
       THEN /\ field_date_time_slots' =
                  dict_set(field_date_time_slots, current_field_name[1],
                           Append(dict_get(field_date_time_slots, current_field_name),
                                  line))
            /\ pc' = "loop"
       ELSE /\ field_date_time_slots' = field_date_time_slots
            /\ pc' = "KeyError"
    /\ UNCHANGED << field_names, current_field_name >>

\* RegisterField making the first field name the current one
RegisterField_first_current(line) ==
    /\ field_names' = Append(field_names, line)
    /\ field_date_time_slots' = dict_set(field_date_time_slots, line, << >>)
    /\ current_field_name' = Some(Append(field_names, line)[1])
    /\ pc' = "loop"
    /\ UNCHANGED date_time_slots

\* RegisterField keeping only the text before "(Athletic Field Use)"
RegisterField_truncated(line) ==
    LET name == strip(slice_to(line, find(line, "(Athletic Field Use)"))) IN
    /\ field_names' = Append(field_names, name)
    /\ field_date_time_slots' = dict_set(field_date_time_slots, name, << >>)
    /\ current_field_name' = Some(name)
    /\ pc' = "loop"
    /\ UNCHANGED date_time_slots

\* field_names.append(line); field_date_time_slots[line] = []; current_field_name = line
RegisterField(line) ==
    /\ field_names' = Append(field_names, line)
    /\ field_date_time_slots' = dict_set(field_date_time_slots, line, << >>)
    /\ current_field_name' = Some(line)
    /\ pc' = "loop"
    /\ UNCHANGED date_time_slots

\* Call that keeps the field names of the call before it
Call_keeps_field_names(m) ==
    /\ pc \in {"idle", "returned", "KeyError"}
    /\ pc' = "loop"
    /\ max_length' = m
    /\ lines' = << >>
    /\ current_field_name' = None
    /\ field_date_time_slots' = << >>
    /\ date_time_slots' = << >>
    /\ UNCHANGED << field_names, call >>

\* entry of the call: the locals before the first iteration
Call(m) ==
    /\ pc \in {"idle", "returned", "KeyError"}
    /\ pc' = "loop"
    /\ max_length' = m
    /\ lines' = << >>
    /\ current_field_name' = None
    /\ field_date_time_slots' = << >>
    /\ date_time_slots' = << >>
    /\ field_names' = << >>
    /\ UNCHANGED call

\* ProcessLine with one cap shared by the two lists
ProcessLine_shared_cap(raw) ==
    /\ pc = "loop"
    /\ Len(lines) < MaxLines
    /\ lines' = Append(lines, raw)
    /\ LET line == strip(raw) IN
       IF line = ""
       THEN UNCHANGED << pc, current_field_name, field_date_time_slots,
                         date_time_slots, field_names >>
       ELSE IF date_time_pattern(line)
               /\ under_cap(date_time_slots \o field_names, max_length)
       THEN RecordSlot(line)
       ELSE IF field_name_pattern(line)
               /\ under_cap(date_time_slots \o field_names, max_length)
       THEN RegisterField(line)
       ELSE UNCHANGED << pc, current_field_name, field_date_time_slots,
                         date_time_slots, field_names >>
    /\ UNCHANGED << max_length, call >>

\* one iteration of the loop over the lines of the text
ProcessLine(raw) ==
    /\ pc = "loop"
    /\ Len(lines) < MaxLines
    /\ lines' = Append(lines, raw)
    /\ LET line == strip(raw) IN
       IF line = ""
       THEN UNCHANGED << pc, current_field_name, field_date_time_slots,
                         date_time_slots, field_names >>
       ELSE IF date_time_pattern(line) /\ under_cap(date_time_slots, max_length)
       THEN RecordSlot(line)
       ELSE IF field_name_pattern(line) /\ under_cap(field_names, max_length)
       THEN RegisterField(line)
       ELSE UNCHANGED << pc, current_field_name, field_date_time_slots,
                         date_time_slots, field_names >>
    /\ UNCHANGED << max_length, call >>

\* the loop is over: the three collections are returned
Return ==
    /\ pc = "loop"
    /\ pc' = "returned"
    /\ UNCHANGED << max_length, lines, current_field_name,
                    field_date_time_slots, date_time_slots, field_names, call >>

Init ==
    /\ pc = "idle"
    /\ max_length = 0
    /\ lines = << >>
    /\ current_field_name = None
    /\ field_date_time_slots = << >>
    /\ date_time_slots = << >>
    /\ field_names = << >>
    /\ call = [ fn |-> "none" ]
    /\ previous = [ set |-> FALSE ]
    /\ dir_pc = "idle"
    /\ files = << >>
    /\ file_idx = 0
    /\ summaries = << >>
    /\ dir_log = << >>
    /\ dir_exc = ""
    /\ workbook = << >>
    /\ workbook_saved = FALSE
    /\ sum_pc = "idle"
    /\ sum_call = [ fn |-> "none" ]
    /\ sum_result = None
    /\ worksheets = << [ key |-> "Sheet1", val |-> 1 ] >>
    /\ current_sheet = "Sheet1"
    /\ data = 1
    /\ lists = << << >> >>
    /\ headers = << >>
    /\ sheet_call = [ fn |-> "none" ]

Next ==
    \/ \E m \in 0..MaxCap : Call(m) /\ UNCHANGED << previous, dir_vars, sum_vars, sheet_vars >>
    \/ \E raw \in DocLines :
          ProcessLine(raw) /\ UNCHANGED << previous, dir_vars, sum_vars, sheet_vars >>
    \/ Return /\ UNCHANGED << previous, dir_vars, sum_vars, sheet_vars >>

Spec == Init /\ [][Next]_vars

(***************************************************************************)
(* Python values of the row parser: int(), str(), and the outcome of a     *)
(* call, which either returns a value or raises an exception.              *)
(***************************************************************************)
Returns(v) == [ exc |-> "", val |-> v ]
Raises(e) == [ exc |-> e, val |-> "" ]

DigitValue(c) ==
    CASE c = "0" -> 0 [] c = "1" -> 1 [] c = "2" -> 2 [] c = "3" -> 3
      [] c = "4" -> 4 [] c = "5" -> 5 [] c = "6" -> 6 [] c = "7" -> 7
      [] c = "8" -> 8 [] c = "9" -> 9

RECURSIVE digits_value(_, _, _)
\* value of the decimal digits s[i..], acc being the value of those before
digits_value(s, i, acc) ==
    IF i > Len(s) THEN acc
    ELSE digits_value(s, i + 1, 10 * acc + DigitValue(Ch(s, i)))

\* int(s): surrounding whitespace dropped, an optional sign, then decimal
\* digits only; anything else is a ValueError
pyint(s) ==
    LET t == strip(s)
        signed == Len(t) >= 1 /\ Ch(t, 1) \in {"+", "-"}
        d == IF signed THEN SubSeq(t, 2, Len(t)) ELSE t
    IN  IF d = "" \/ \E i \in 1..Len(d) : Ch(d, i) \notin Digits
        THEN Raises("ValueError")
        ELSE IF signed /\ Ch(t, 1) = "-"
             THEN Returns(0 - digits_value(d, 1, 0))
             ELSE Returns(digits_value(d, 1, 0))

DigitChar(n) ==
    CASE n = 0 -> "0" [] n = 1 -> "1" [] n = 2 -> "2" [] n = 3 -> "3"
      [] n = 4 -> "4" [] n = 5 -> "5" [] n = 6 -> "6" [] n = 7 -> "7"
      [] n = 8 -> "8" [] n = 9 -> "9"

RECURSIVE nat_str(_)
nat_str(n) == IF n < 10 THEN DigitChar(n) ELSE nat_str(n \div 10) \o DigitChar(n % 10)

\* str(n) of an int
pystr(n) == IF n < 0 THEN "-" \o nat_str(0 - n) ELSE nat_str(n)

(***************************************************************************)
(* utils/helpers.py: the row parser.  Python lists are indexed from 0 and  *)
(* TLA+ sequences from 1: parts[k] of the code is parts[k + 1] here.       *)
(***************************************************************************)
\* extract_date reading the year from the second token
extract_date_second_token(elm1, elm2) ==
    LET parts == split(strip(elm2), " ")
    IN  IF Len(parts) < 2 THEN Raises("IndexError")
        ELSE Returns(strip(elm1) \o ", " \o parts[2])

extract_date(elm1, elm2) ==
    LET parts == split(strip(elm2), " ")
    IN  Returns(strip(elm1) \o ", " \o parts[1])

\* extract_time that keeps 12 PM at hour 12
extract_time_noon(elm1) ==
    LET parts == split(strip(elm1), " ") IN
    IF Len(parts) < 3 THEN Raises("IndexError")
    ELSE IF parts[3] = "PM"
    THEN LET time_parts == split(parts[2], ":")
             hour == pyint(time_parts[1])
         IN  IF hour.exc # "" THEN hour
             ELSE IF Len(time_parts) < 2 THEN Raises("IndexError")
             ELSE Returns(pystr((hour.val % 12) + 12) \o ":" \o time_parts[2])
    ELSE Returns(parts[2])

\* extract_time that turns 12 AM into hour 00
extract_time_midnight(elm1) ==
    LET parts == split(strip(elm1), " ") IN
    IF Len(parts) < 3 THEN Raises("IndexError")
    ELSE IF parts[3] = "PM"
    THEN LET time_parts == split(parts[2], ":")
             hour == pyint(time_parts[1])
         IN  IF hour.exc # "" THEN hour
             ELSE IF Len(time_parts) < 2 THEN Raises("IndexError")
             ELSE Returns(pystr(hour.val + 12) \o ":" \o time_parts[2])
    ELSE LET time_parts == split(parts[2], ":")
         IN  IF time_parts[1] = "12" /\ Len(time_parts) >= 2
             THEN Returns("00:" \o time_parts[2])
             ELSE Returns(parts[2])

\* extract_time accepting a PM hour that has no ':' after it
extract_time_colon_optional(elm1) ==
    LET parts == split(strip(elm1), " ") IN
    IF Len(parts) < 3 THEN Raises("IndexError")
    ELSE IF parts[3] = "PM"
    THEN LET time_parts == split(parts[2], ":")
             hour == pyint(time_parts[1])
         IN  IF hour.exc # "" THEN hour
             ELSE IF Len(time_parts) < 2 THEN Returns(pystr(hour.val + 12))
             ELSE Returns(pystr(hour.val + 12) \o ":" \o time_parts[2])
    ELSE Returns(parts[2])

extract_time(elm1) ==
    LET parts == split(strip(elm1), " ") IN
    IF Len(parts) < 3 THEN Raises("IndexError")
    ELSE IF parts[3] = "PM"
    THEN LET time_parts == split(parts[2], ":")
             hour == pyint(time_parts[1])
         IN  IF hour.exc # "" THEN hour
             ELSE IF Len(time_parts) < 2 THEN Raises("IndexError")
             ELSE Returns(pystr(hour.val + 12) \o ":" \o time_parts[2])
    ELSE Returns(parts[2])

\* extract_cost taking the token right after the AM/PM marker
extract_cost_after_marker(elm1) ==
    LET parts == split(strip(elm1), " ")
    IN  IF Len(parts) < 4 THEN Raises("IndexError") ELSE Returns(parts[4])

\* extract_cost answering an empty cost when the token is missing
extract_cost_default(elm1) ==
    LET parts == split(strip(elm1), " ")
    IN  IF Len(parts) < 5 THEN Returns("") ELSE Returns(parts[5])

extract_cost(elm1) ==
    LET parts == split(strip(elm1), " ")
    IN  IF Len(parts) < 5 THEN Raises("IndexError") ELSE Returns(parts[5])

\* RowDict taking the issued date from the date of the slot line
RowDict_issued_from_line(day, date, start, end, cost, issued_date) ==
    ("day" :> day) @@ ("date" :> date) @@ ("start" :> start) @@
    ("end" :> end) @@ ("cost" :> cost) @@ ("issued-date" :> date)

\* the dict parse_row once its six keys are set
RowDict(day, date, start, end, cost, issued_date) ==
    ("day" :> day) @@ ("date" :> date) @@ ("start" :> start) @@
    ("end" :> end) @@ ("cost" :> cost) @@ ("issued-date" :> issued_date)

\* the statements of parse_spreadsheet_row from elements[0] on
parse_elements(elements, issued_date) ==
    IF Len(elements) < 3 THEN Raises("IndexError")
    ELSE
    LET day == strip(elements[1])
        date == extract_date(elements[2], elements[3])
        start == extract_time(elements[3])
    IN  IF date.exc # "" THEN date
        ELSE IF start.exc # "" THEN start
        ELSE IF Len(elements) < 5 THEN Raises("IndexError")
        ELSE
        LET end == extract_time(elements[5])
            cost == extract_cost(elements[5])
        IN  IF end.exc # "" THEN end
            ELSE IF cost.exc # "" THEN cost
            ELSE Returns(RowDict(day, date.val, start.val, end.val, cost.val,
                                 issued_date))

\* parse_spreadsheet_row that returns an empty row for a line too short
parse_spreadsheet_row_lenient(row_data, issued_date) ==
    IF Len(split(row_data, ",")) < 5
    THEN Returns(<< >>)
    ELSE parse_elements(split(row_data, ","), issued_date)

parse_spreadsheet_row(row_data, issued_date) ==
    parse_elements(split(row_data, ","), issued_date)

(***************************************************************************)
(* Inputs of the row parser.  A fragment is one comma-separated element    *)
(* of a slot line, given by the tokens it is written from: its text is a   *)
(* space followed by the tokens with one space between them.  The other    *)
(* fields describe how it was written and are not seen by the parser:      *)
(* hour, minute and period of a timestamp "<year> H:MM AM|PM ...", and     *)
(* for any fragment whether the text before ':' in its second token is an  *)
(* integer and whether the token has a ':' at all.                         *)
(***************************************************************************)
HourText == << "1", "2", "3", "4", "5", "6", "7", "8", "9", "10", "11", "12" >>

RECURSIVE join(_, _)
\* sep.join(pieces)
join(pieces, sep) ==
    IF pieces = << >> THEN ""
    ELSE IF Len(pieces) = 1 THEN pieces[1]
    ELSE pieces[1] \o sep \o join(Tail(pieces), sep)

FragmentText(f) == " " \o join(f.tokens, " ")

Stamp(h, mm, p, rest) ==
    [ tokens |-> << "2025", HourText[h] \o ":" \o mm, p >> \o rest,
      shape |-> "stamp", hour |-> h, minute |-> mm, period |-> p,
      hour_is_int |-> TRUE, has_colon |-> TRUE ]

Other(tokens, hour_is_int, has_colon) ==
    [ tokens |-> tokens, shape |-> "other", hour |-> 0, minute |-> "",
      period |-> "", hour_is_int |-> hour_is_int, has_colon |-> has_colon ]

\* fragments that are not a well-formed timestamp
OddFragments ==
    { Other(<< "" >>, FALSE, FALSE),
      Other(<< "Dec", "6" >>, FALSE, FALSE),
      Other(<< "2025", "8:00" >>, TRUE, TRUE),
      Other(<< "2025", "", "8:00", "AM" >>, FALSE, FALSE),
      Other(<< "2025", "x:00", "PM" >>, FALSE, TRUE),
      Other(<< "2025", "x:00", "PM", "1", "$25" >>, FALSE, TRUE),
      Other(<< "2025", "800", "PM", "1", "$25" >>, TRUE, FALSE) }

Minutes == { "00", "15", "30" }
Periods == { "AM", "PM" }

\* what follows the AM/PM marker in a fragment
StartRests == { << >>, << "Sat" >> }
EndRests == { << >>, << "$25" >>, << "1", "$25" >> }

\* fragments handed to extract_time directly
TimeFragments ==
    { Stamp(h, mm, p, r) : h \in 1..12, mm \in Minutes, p \in Periods,
                           r \in StartRests \cup EndRests }
    \cup OddFragments

\* fragments at elements[2] and elements[4] of a generated slot line
RowHours == { 1, 8, 12 }
RowMinutes == { "00", "30" }
StartFragments ==
    { Stamp(h, mm, p, r) : h \in RowHours, mm \in RowMinutes, p \in Periods,
                           r \in StartRests }
    \cup OddFragments
EndFragments ==
    { Stamp(h, mm, p, r) : h \in RowHours, mm \in RowMinutes, p \in Periods,
                           r \in EndRests }
    \cup OddFragments

DayFragment == [ Other(<< "Sat" >>, FALSE, FALSE) EXCEPT !.shape = "day" ]
MonthDayFragment == Other(<< "Dec", "6" >>, FALSE, FALSE)
ExtraFragment == Other(<< "note" >>, FALSE, FALSE)

\* a slot line of n elements with e2 at elements[2] and e4 at elements[4]
RowElements(n, e2, e4) ==
    [ i \in 1..n |-> IF i = 1 THEN DayFragment
                     ELSE IF i = 3 THEN e2
                     ELSE IF i = 5 THEN e4
                     ELSE IF i \in {2, 4} THEN MonthDayFragment
                     ELSE ExtraFragment ]

\* the line "Sat, Dec 6, 2025 8:00 AM, Sat, Dec 6, 2025 1:00 PM $25"
CommaAfterStartElements ==
    << DayFragment, MonthDayFragment, Stamp(8, "00", "AM", << >>),
       Other(<< "Sat" >>, FALSE, FALSE), MonthDayFragment,
       Stamp(1, "00", "PM", << "$25" >>) >>

RowInputs ==
    { RowElements(n, e2, e4) : n \in 1..MaxElems, e2 \in StartFragments,
                               e4 \in EndFragments }
    \cup { CommaAfterStartElements }

IssuedDates == { "2025-11-01", "" }

\* the text of a slot line: the day as it is, then the other elements
RowText(elems) ==
    join([ i \in 1..Len(elems) |->
             IF i = 1 THEN join(elems[1].tokens, " ") ELSE FragmentText(elems[i]) ],
         ",")

(***************************************************************************)
(* Calls of the row parser functions.                                      *)
(***************************************************************************)
CallExtractTime(f) ==
    /\ call.fn = "none"
    /\ call' = [ fn |-> "extract_time", elm1 |-> FragmentText(f), frag |-> f,
                 result |-> extract_time(FragmentText(f)) ]
    /\ UNCHANGED extract_vars

CallParseRow(elems, issued_date) ==
    /\ call.fn = "none"
    /\ call' = [ fn |-> "parse_spreadsheet_row", row_data |-> RowText(elems),
                 issued_date |-> issued_date, elems |-> elems,
                 result |-> parse_spreadsheet_row(RowText(elems), issued_date) ]
    /\ UNCHANGED extract_vars

\* the caller has taken the outcome of the call
CallDone ==
    /\ call.fn # "none"
    /\ call' = [ fn |-> "none" ]
    /\ UNCHANGED extract_vars

NextRow ==
    \/ \E f \in TimeFragments :
          CallExtractTime(f) /\ UNCHANGED << previous, dir_vars, sum_vars, sheet_vars >>
    \/ \E elems \in RowInputs, d \in IssuedDates :
          CallParseRow(elems, d) /\ UNCHANGED << previous, dir_vars, sum_vars, sheet_vars >>
    \/ CallDone /\ UNCHANGED << previous, dir_vars, sum_vars, sheet_vars >>

SpecRow == Init /\ [][NextRow]_vars

(***************************************************************************)
(* Vocabulary of the extractor's properties: what a document contains,     *)
(* read off the lines themselves.                                          *)
(***************************************************************************)
IsSlotLine(raw) == date_time_pattern(strip(raw))
IsHeaderLine(raw) == field_name_pattern(strip(raw))

SlotIndices(ls) == { i \in 1..Len(ls) : IsSlotLine(ls[i]) }
HeaderIndices(ls) == { i \in 1..Len(ls) : IsHeaderLine(ls[i]) }

\* the header line that most recently precedes the end of ls, trimmed
LatestHeader(ls) ==
    IF HeaderIndices(ls) = {} THEN None
    ELSE Some(strip(ls[CHOOSE i \in HeaderIndices(ls) :
                          \A j \in HeaderIndices(ls) : j <= i]))

\* index of the next header line after line i, Len(ls) + 1 if there is none
NextHeaderAfter(ls, i) ==
    IF \E j \in HeaderIndices(ls) : j > i
    THEN CHOOSE j \in HeaderIndices(ls) :
             j > i /\ \A k \in HeaderIndices(ls) : k > i => j <= k
    ELSE Len(ls) + 1

\* number of slot lines between header line i and the next header line
SlotsUnder(ls, i) ==
    Cardinality({ k \in SlotIndices(ls) : i < k /\ k < NextHeaderAfter(ls, i) })

RECURSIVE IsSubsequence(_, _)
\* a can be obtained from b by deleting elements
IsSubsequence(a, b) ==
    IF a = << >> THEN TRUE
    ELSE IF b = << >> THEN FALSE
    ELSE IF Head(a) = Head(b) THEN IsSubsequence(Tail(a), Tail(b))
    ELSE IsSubsequence(a, Tail(b))

\* C1: during and after every extraction call, for every text and every
\* max_length >= 0, date_time_slots and field_names each hold at most
\* max_length entries.
C1_CapsHold ==
    pc # "idle" =>
        /\ Len(date_time_slots) <= max_length
        /\ Len(field_names) <= max_length

\* both lists are full and the text held more slot and header lines than that
C1_Witness ==
    /\ pc \in {"loop", "returned"}
    /\ max_length >= 1
    /\ Len(date_time_slots) = max_length
    /\ Len(field_names) = max_length
    /\ Cardinality(SlotIndices(lines)) > max_length
    /\ Cardinality(HeaderIndices(lines)) > max_length

\* C2: every slot line the extractor records (without failing) is appended
\* to the list that field_date_time_slots keeps for the header line that
\* most recently preceded it in the text.
C2_FiledUnderLatestHeader ==
    [][ (pc' = "loop" /\ Len(date_time_slots') = Len(date_time_slots) + 1) =>
            LET h == LatestHeader(lines') IN
                /\ h # None
                /\ dict_has(field_date_time_slots', h)
                /\ dict_get(field_date_time_slots', h) =
                       Append(IF dict_has(field_date_time_slots, h)
                              THEN dict_get(field_date_time_slots, h)
                              ELSE << >>,
                              date_time_slots'[Len(date_time_slots')]) ]_vars

\* C3: when extraction returns, every list stored in field_date_time_slots
\* is a subsequence of date_time_slots.
C3_FieldListsAreSubsequences ==
    pc = "returned" =>
        \A i \in 1..Len(field_date_time_slots) :
            IsSubsequence(field_date_time_slots[i].val, date_time_slots)

\* two fields with slot lines of their own, one of them with two
C3_Witness ==
    /\ pc = "returned"
    /\ Len(field_date_time_slots) = 2
    /\ Len(field_date_time_slots[1].val) >= 2
    /\ Len(field_date_time_slots[2].val) >= 1
    /\ field_date_time_slots[1].val[1] # field_date_time_slots[1].val[2]

\* a text of distinct header lines, each followed by slot lines, with fewer
\* header lines and fewer slot lines than the cap
HeadersWithSlots(ls, cap) ==
    /\ ls # << >>
    /\ IsHeaderLine(ls[1])
    /\ \A i \in 1..Len(ls) : IsHeaderLine(ls[i]) \/ IsSlotLine(ls[i])
    /\ \A i, j \in HeaderIndices(ls) : i # j => strip(ls[i]) # strip(ls[j])
    /\ Cardinality(HeaderIndices(ls)) < cap
    /\ Cardinality(SlotIndices(ls)) < cap

\* C4: on such a text extraction returns one field_names entry and one
\* field_date_time_slots key per header line, one date_time_slots entry per
\* slot line, and under each key as many lines as there are slot lines
\* between its header and the next header.
C4_CountsPerHeader ==
    (pc = "returned" /\ HeadersWithSlots(lines, max_length)) =>
        /\ Len(field_names) = Cardinality(HeaderIndices(lines))
        /\ Len(date_time_slots) = Cardinality(SlotIndices(lines))
        /\ Len(field_date_time_slots) = Cardinality(HeaderIndices(lines))
        /\ \A i \in HeaderIndices(lines) :
              /\ \E k \in 1..Len(field_names) : field_names[k] = strip(lines[i])
              /\ dict_has(field_date_time_slots, Some(strip(lines[i])))
              /\ Len(dict_get(field_date_time_slots, Some(strip(lines[i])))) =
                     SlotsUnder(lines, i)

\* header, two slot lines, header, one slot line: lengths 2 and 3, counts 2 and 1
C4_Witness ==
    /\ pc = "returned"
    /\ HeadersWithSlots(lines, max_length)
    /\ Len(lines) = 5
    /\ HeaderIndices(lines) = {1, 4}
    /\ Len(field_names) = 2
    /\ Len(date_time_slots) = 3
    /\ Len(field_date_time_slots) = 2
    /\ Len(field_date_time_slots[1].val) = 2
    /\ Len(field_date_time_slots[2].val) = 1

(***************************************************************************)
(* Vocabulary of the row parser's properties.                              *)
(***************************************************************************)
IsTimeCall == call.fn = "extract_time"
IsRowCall == call.fn = "parse_spreadsheet_row"

PMHourText == << "13", "14", "15", "16", "17", "18", "19", "20", "21", "22",
                 "23", "24" >>

\* a timestamp fragment "<year> H:MM <p> ..."
IsStamp(f, p) == f.shape = "stamp" /\ f.period = p

\* the third token is PM and the text before ':' in the second is no integer
BadPMHour(f) ==
    /\ Len(f.tokens) >= 3
    /\ f.tokens[3] = "PM"
    /\ ~f.hour_is_int

\* the third token is PM and the second token is an integer without ':'
NoColonPM(f) ==
    /\ Len(f.tokens) >= 3
    /\ f.tokens[3] = "PM"
    /\ f.hour_is_int
    /\ ~f.has_colon

SpecExampleLine == "Sat, Dec 6, 2025 8:00 AM, Sat, Dec 6, 2025 1:00 PM $25"
ExampleRow == RowDict("Sat", "Dec 6, 2025", "8:00", "13:00", "$25", "2025-11-01")

\* C5 as claimed: the line with a comma after the start time parses to the
\* example row.
C5_SpecExampleParses ==
    (IsRowCall /\ call.row_data = SpecExampleLine
               /\ call.issued_date = "2025-11-01") =>
        /\ call.result.exc = ""
        /\ call.result.val = ExampleRow

\* C5: with issued_date "2025-11-01", the line of the claim (a comma after
\* the start time, so six elements) raises IndexError, and the line
\* "Sat, Dec 6, 2025 8:00 AM Sat, Dec 6, 2025 1:00 PM 1 $25" (no comma
\* there, one token between PM and the amount) returns the example row.
C5_ExampleRow ==
    (IsRowCall /\ call.issued_date = "2025-11-01") =>
        /\ call.row_data = SpecExampleLine => call.result.exc = "IndexError"
        /\ call.row_data = SatSlotLine =>
              /\ call.result.exc = ""
              /\ call.result.val = ExampleRow

C5_Witness ==
    /\ IsRowCall
    /\ call.row_data = SatSlotLine
    /\ call.issued_date = "2025-11-01"
    /\ call.result.exc = ""
    /\ call.result.val["end"] = "13:00"
    /\ call.result.val["cost"] = "$25"

\* C6: for a fragment "<year> H:MM PM" extract_time returns "(H+12):MM",
\* minutes unchanged and no wraparound (12 PM gives hour 24), as the start
\* and as the end of a row as well.
C6_PMAddsTwelve ==
    /\ (IsTimeCall /\ IsStamp(call.frag, "PM")) =>
          /\ call.result.exc = ""
          /\ call.result.val =
                 PMHourText[call.frag.hour] \o ":" \o call.frag.minute
    /\ (IsRowCall /\ call.result.exc = "") =>
          /\ IsStamp(call.elems[3], "PM") =>
                call.result.val["start"] =
                    PMHourText[call.elems[3].hour] \o ":" \o call.elems[3].minute
          /\ IsStamp(call.elems[5], "PM") =>
                call.result.val["end"] =
                    PMHourText[call.elems[5].hour] \o ":" \o call.elems[5].minute

\* "12:30 PM" gives "24:30"
C6_Witness ==
    /\ IsTimeCall
    /\ IsStamp(call.frag, "PM")
    /\ call.frag.hour = 12
    /\ call.frag.minute = "30"
    /\ call.result.exc = ""
    /\ call.result.val = "24:30"

\* C7: for a fragment whose period token is AM, extract_time returns the
\* hour:minute token as it is in the input, for every hour including 12.
C7_AMUnchanged ==
    /\ (IsTimeCall /\ IsStamp(call.frag, "AM")) =>
          /\ call.result.exc = ""
          /\ call.result.val = call.frag.tokens[2]
    /\ (IsRowCall /\ call.result.exc = "") =>
          /\ IsStamp(call.elems[3], "AM") =>
                call.result.val["start"] = call.elems[3].tokens[2]
          /\ IsStamp(call.elems[5], "AM") =>
                call.result.val["end"] = call.elems[5].tokens[2]

\* "12:15 AM" gives "12:15"
C7_Witness ==
    /\ IsTimeCall
    /\ IsStamp(call.frag, "AM")
    /\ call.frag.hour = 12
    /\ call.frag.minute = "15"
    /\ call.result.exc = ""
    /\ call.result.val = "12:15"

\* C8 as claimed: the cost is the token at position 4 of the end fragment,
\* and for an end fragment "<year> <H:MM> <AM|PM> <amount>" it is <amount>.
C8_CostFollowsMarker ==
    (IsRowCall /\ Len(call.elems) >= 5 /\ call.elems[3].shape = "stamp") =>
        /\ call.result.exc = "" =>
              /\ Len(call.elems[5].tokens) >= 5
              /\ call.result.val["cost"] = call.elems[5].tokens[5]
        /\ (call.elems[5].shape = "stamp" /\ Len(call.elems[5].tokens) = 4) =>
              /\ call.result.exc = ""
              /\ call.result.val["cost"] = call.elems[5].tokens[4]

\* C8: the cost returned is the token at 0-based position 4 of element[4]
\* trimmed and split on single spaces, the second token after the AM/PM
\* marker of "<year> <H:MM> <AM|PM> <x> <amount>"; for an end fragment
\* "<year> <H:MM> <AM|PM> <amount>" that position is absent and the call
\* raises instead of returning a cost.
C8_CostIsFifthToken ==
    IsRowCall =>
        /\ call.result.exc = "" =>
              /\ Len(call.elems) >= 5
              /\ Len(call.elems[5].tokens) >= 5
              /\ call.result.val["cost"] = call.elems[5].tokens[5]
        /\ (Len(call.elems) >= 5 /\ call.elems[3].shape = "stamp"
            /\ call.elems[5].shape = "stamp") =>
              /\ Len(call.elems[5].tokens) = 5 =>
                    /\ call.result.exc = ""
                    /\ call.result.val["cost"] = call.elems[5].tokens[5]
              /\ Len(call.elems[5].tokens) = 4 =>
                    call.result.exc = "IndexError"

C8_Witness ==
    /\ IsRowCall
    /\ Len(call.elems) = 5
    /\ call.elems[5].shape = "stamp"
    /\ Len(call.elems[5].tokens) = 5
    /\ call.elems[5].tokens[4] = "1"
    /\ call.result.exc = ""
    /\ call.result.val["cost"] = "$25"

\* C9 as claimed: a line of fewer than 5 elements raises IndexError whatever
\* the elements hold.
C9_ShortLineIndexError ==
    (IsRowCall /\ Len(call.elems) < 5) => call.result.exc = "IndexError"

\* C9: a line of fewer than 5 comma-separated elements raises and returns
\* no row: IndexError, except ValueError when it has at least 3 elements
\* and element[2] has PM as third token with a non-integer hour text.
C9_ShortLineRaises ==
    (IsRowCall /\ Len(call.elems) < 5) =>
        /\ call.result.exc \in {"IndexError", "ValueError"}
        /\ call.result.exc = "ValueError" <=>
              (Len(call.elems) >= 3 /\ BadPMHour(call.elems[3]))

\* exactly 4 elements, all of them well formed
C9_Witness ==
    /\ IsRowCall
    /\ Len(call.elems) = 4
    /\ call.elems[3].shape = "stamp"
    /\ call.result.exc = "IndexError"

\* an expected token position of element[2] or element[4] is absent
TokenMissing(elems) ==
    \/ Len(elems[3].tokens) < 3
    \/ Len(elems[5].tokens) < 5

\* C10 as claimed: a line of at least 5 elements with an absent token
\* position raises IndexError.
C10_MissingTokenIndexError ==
    (IsRowCall /\ Len(call.elems) >= 5 /\ TokenMissing(call.elems)) =>
        call.result.exc = "IndexError"

\* C10: a line of at least 5 elements in which element[2] has fewer than 3
\* tokens or element[4] fewer than 5 (tokens being the pieces of the trimmed
\* element between single spaces) raises and never returns a row: IndexError,
\* except ValueError when a PM fragment with a non-integer hour text is
\* evaluated before the absent position is reached.
C10_MissingTokenRaises ==
    (IsRowCall /\ Len(call.elems) >= 5 /\ TokenMissing(call.elems)) =>
        /\ call.result.exc \in {"IndexError", "ValueError"}
        /\ call.result.exc = "ValueError" <=>
              /\ Len(call.elems[3].tokens) >= 3
              /\ \/ BadPMHour(call.elems[3])
                 \/ /\ ~NoColonPM(call.elems[3])
                    /\ BadPMHour(call.elems[5])

\* a well-formed start, an end fragment of two tokens
C10_Witness ==
    /\ IsRowCall
    /\ Len(call.elems) >= 5
    /\ call.elems[3].shape = "stamp"
    /\ Len(call.elems[5].tokens) = 2
    /\ call.result.exc = "IndexError"

(***************************************************************************)
(* Further vocabulary of the extractor's properties.                       *)
(***************************************************************************)
\* the line the loop has just iterated over, in the new state
LineStepped == pc = "loop" /\ Len(lines') = Len(lines) + 1

\* the document lines as str.strip() leaves them, written out
TrimmedText(raw) ==
    CASE raw = EastFieldLine -> "East Field (Athletic Field Use)"
      [] raw = WestFieldLine -> "West Field (Athletic Field Use) Permit"
      [] raw = SatSlotLine -> "Sat, Dec 6, 2025 8:00 AM Sat, Dec 6, 2025 1:00 PM 1 $25"
      [] raw = SunSlotLine -> "Sun, Dec 7, 2025 9:00 AM $5"
      [] raw = BareStampLine -> "Sat, Dec 6, 2025 8:00 AM"
      [] raw = BlankLine -> ""

FieldMarker == "(Athletic Field Use)"

\* s ends in exactly the marker
EndsWithMarker(s) ==
    /\ Len(s) >= Len(FieldMarker)
    /\ SubSeq(s, Len(s) - Len(FieldMarker) + 1, Len(s)) = FieldMarker

\* s begins with letters or whitespace, then a space and the marker
StartsAsHeader(s) ==
    \E n \in 1..Len(s) :
        /\ \A j \in 1..n : Ch(s, j) \in Letters \cup Whitespace
        /\ n + 1 + Len(FieldMarker) <= Len(s)
        /\ SubSeq(s, n + 1, n + 1 + Len(FieldMarker)) = " " \o FieldMarker

\* a slot line stands in ls before every header line of ls
OrphanSlot(ls) ==
    \E i \in SlotIndices(ls) : \A j \in HeaderIndices(ls) : i < j

\* C11: for max_length >= 1 an extraction call has failed with KeyError
\* exactly when its text has a slot line before any header line; the
\* failure is on that line, which was appended to date_time_slots and filed
\* nowhere, and the call returns nothing.
C11_OrphanSlotRaises ==
    (pc # "idle" /\ max_length >= 1) =>
        /\ OrphanSlot(lines) <=> pc = "KeyError"
        /\ pc = "KeyError" =>
              /\ IsSlotLine(lines[Len(lines)])
              /\ HeaderIndices(lines) = {}
              /\ date_time_slots = << strip(lines[Len(lines)]) >>
              /\ field_date_time_slots = << >>

\* a slot line after a line of noise, before any header
C11_Witness ==
    /\ pc = "KeyError"
    /\ max_length >= 1
    /\ Len(lines) = 2
    /\ lines[1] = BareStampLine
    /\ lines[2] = SatSlotLine

\* C12: a line that matches neither pattern, and an empty or whitespace-only
\* line, raises nothing and leaves date_time_slots, field_names,
\* field_date_time_slots and the current field name as they were.
C12_NoiseLeavesStateAlone ==
    [][ (/\ LineStepped
         /\ LET raw == lines'[Len(lines')] IN
                \/ raw \in {BareStampLine, BlankLine}
                \/ ~IsSlotLine(raw) /\ ~IsHeaderLine(raw)) =>
            /\ pc' = "loop"
            /\ UNCHANGED << date_time_slots, field_names,
                            field_date_time_slots, current_field_name >> ]_vars

\* a header, a slot line, then a line of noise and a blank line
C12_Witness ==
    /\ pc = "loop"
    /\ Len(lines) = 4
    /\ lines[3] = BareStampLine
    /\ lines[4] = BlankLine
    /\ Len(field_names) = 1
    /\ Len(date_time_slots) = 1
    /\ current_field_name = Some(field_names[1])
    /\ field_date_time_slots[1].val = date_time_slots

\* C13 as claimed: every registered header line ends in exactly
\* "(Athletic Field Use)".
C13_OnlyExactEnding ==
    /\ \A k \in 1..Len(field_names) : EndsWithMarker(field_names[k])
    /\ \A i \in 1..Len(field_date_time_slots) :
          EndsWithMarker(field_date_time_slots[i].key)

\* C13: a line is recognized as a header when, trimmed, it begins with
\* letters or whitespace followed by " (Athletic Field Use)", whatever
\* follows the parenthetical: while field_names is under the cap such a line
\* is appended to field_names and registers a key; no other line is.
C13_TrailingTextAccepted ==
    [][ LineStepped =>
            LET raw == lines'[Len(lines')] IN
            /\ (StartsAsHeader(TrimmedText(raw)) /\ Len(field_names) < max_length) =>
                  /\ field_names' = Append(field_names, TrimmedText(raw))
                  /\ dict_has(field_date_time_slots', Some(TrimmedText(raw)))
            /\ ~StartsAsHeader(TrimmedText(raw)) =>
                  /\ field_names' = field_names
                  /\ dict_keys(field_date_time_slots') =
                         dict_keys(field_date_time_slots) ]_vars

\* the header line with text after the parenthetical is registered
C13_Witness ==
    /\ pc \in {"loop", "returned"}
    /\ \E k \in 1..Len(field_names) :
          /\ field_names[k] = "West Field (Athletic Field Use) Permit"
          /\ ~EndsWithMarker(field_names[k])
    /\ dict_has(field_date_time_slots, Some("West Field (Athletic Field Use) Permit"))

\* C14: when a header line is registered, the entry appended to field_names,
\* the key set in field_date_time_slots and the current field name are the
\* whole line without its leading and trailing whitespace.
C14_KeyIsTrimmedLine ==
    [][ (LineStepped /\ Len(field_names') = Len(field_names) + 1) =>
            LET whole == TrimmedText(lines'[Len(lines')]) IN
            /\ field_names'[Len(field_names')] = whole
            /\ dict_has(field_date_time_slots', Some(whole))
            /\ dict_get(field_date_time_slots', Some(whole)) = << >>
            /\ current_field_name' = Some(whole)
            /\ \A i \in 1..Len(field_date_time_slots') :
                  \E j \in 1..Len(lines') :
                      field_date_time_slots'[i].key = TrimmedText(lines'[j]) ]_vars

\* both header lines registered, one padded and one with trailing text
C14_Witness ==
    /\ pc = "returned"
    /\ lines = << EastFieldLine, WestFieldLine >>
    /\ field_names = << "East Field (Athletic Field Use)",
                        "West Field (Athletic Field Use) Permit" >>
    /\ dict_keys(field_date_time_slots) = field_names

\* C15: the caps are independent: a header line is appended whenever
\* field_names is under the cap, however full date_time_slots is, and a slot
\* line is appended whenever date_time_slots is under the cap, however full
\* field_names is.
C15_CapsIndependent ==
    [][ LineStepped =>
            LET raw == lines'[Len(lines')] IN
            /\ (IsHeaderLine(raw) /\ Len(field_names) < max_length) =>
                  field_names' = Append(field_names, strip(raw))
            /\ (IsSlotLine(raw) /\ Len(date_time_slots) < max_length) =>
                  date_time_slots' = Append(date_time_slots, strip(raw)) ]_vars

\* date_time_slots is full, and the header line after that was appended
C15_Witness ==
    /\ pc = "loop"
    /\ max_length >= 1
    /\ Len(lines) >= 2
    /\ IsHeaderLine(lines[Len(lines)])
    /\ Len(date_time_slots) = max_length
    /\ Len(field_names) = Cardinality(HeaderIndices(lines))
    /\ Len(field_names) >= 2

\* the slot lines of ls after line j, trimmed
SlotLinesAfter(ls, j) ==
    LET rest == SelectSeq(SubSeq(ls, j + 1, Len(ls)), IsSlotLine)
    IN  [ n \in 1..Len(rest) |-> strip(rest[n]) ]

\* C16: when a header line occurs more than once in the text, the map holds
\* one entry for it, and the lines of that entry are slot lines that stand
\* after the last occurrence of the header.
C16_LastOccurrenceWins ==
    pc = "returned" =>
        \A i \in 1..Len(field_date_time_slots) :
            LET k == field_date_time_slots[i].key
                occ == { j \in HeaderIndices(lines) : strip(lines[j]) = k }
                last == CHOOSE j \in occ : \A n \in occ : n <= j
            IN  Cardinality(occ) > 1 =>
                  /\ \A n \in 1..Len(field_date_time_slots) :
                        field_date_time_slots[n].key = k => n = i
                  /\ IsSubsequence(field_date_time_slots[i].val,
                                   SlotLinesAfter(lines, last))

(***************************************************************************)
(* C18: the row returned by parse_spreadsheet_row.                         *)
(***************************************************************************)
RowKeys == { "day", "date", "start", "end", "cost", "issued-date" }

\* C18: whenever parse_spreadsheet_row returns, the row has exactly the six
\* keys day, date, start, end, cost and issued-date, and its issued-date is
\* the issued_date argument unchanged, whatever the slot line contains.
C18_IssuedDatePassedThrough ==
    (IsRowCall /\ call.result.exc = "") =>
        /\ DOMAIN call.result.val = RowKeys
        /\ call.result.val["issued-date"] = call.issued_date

\* a row returned for an empty issued_date, from a line with a date of its own
C18_Witness ==
    /\ IsRowCall
    /\ call.result.exc = ""
    /\ call.issued_date = ""
    /\ call.result.val["date"] # ""

(***************************************************************************)
(* Repeated extraction.  One returned call is remembered with its text,    *)
(* its max_length and the three collections it returned; any number of     *)
(* calls follow it, counted up to MaxLaterCalls.                           *)
(***************************************************************************)
MaxRepeatLines == 2
MaxRepeatCap == 1
MaxLaterCalls == 2

RepeatLines == { EastFieldLine, WestFieldLine, SatSlotLine, SunSlotLine }

\* return {...}: the caller keeps what the call was given and what it returned
Remember ==
    /\ pc = "returned"
    /\ previous' = [ set |-> TRUE, later |-> 0,
                     lines |-> lines, max_length |-> max_length,
                     date_time_slots |-> date_time_slots,
                     field_names |-> field_names,
                     field_date_time_slots |-> field_date_time_slots ]
    /\ UNCHANGED << extract_vars, call, dir_vars, sum_vars, sheet_vars >>

\* a call of _extract_basic_summary, counted when it follows the remembered one
AgainCall(m) ==
    /\ Call(m)
    /\ previous' = IF previous.set /\ previous.later < MaxLaterCalls
                   THEN [ previous EXCEPT !.later = @ + 1 ]
                   ELSE previous
    /\ UNCHANGED << dir_vars, sum_vars, sheet_vars >>

AgainLine(raw) ==
    /\ Len(lines) < MaxRepeatLines
    /\ ProcessLine(raw)
    /\ UNCHANGED << previous, dir_vars, sum_vars, sheet_vars >>

AgainReturn == Return /\ UNCHANGED << previous, dir_vars, sum_vars, sheet_vars >>

NextAgain ==
    \/ \E m \in 0..MaxRepeatCap : AgainCall(m)
    \/ \E raw \in RepeatLines : AgainLine(raw)
    \/ AgainReturn
    \/ Remember

SpecAgain == Init /\ [][NextAgain]_vars

\* the call that has returned was given what the remembered call was given
SameInputAsPrevious ==
    /\ pc = "returned"
    /\ previous.set
    /\ previous.lines = lines
    /\ previous.max_length = max_length

\* C17: two calls of _extract_basic_summary with the same text and the same
\* max_length, whatever calls were made in between, return equal
\* date_time_slots, field_names and field_date_time_slots.
C17_SameInputSameResult ==
    SameInputAsPrevious =>
        /\ date_time_slots = previous.date_time_slots
        /\ field_names = previous.field_names
        /\ field_date_time_slots = previous.field_date_time_slots

\* the text is extracted again after another call in between, and the
\* result has a field with a slot
C17_Witness ==
    /\ SameInputAsPrevious
    /\ previous.later = 2
    /\ field_names # << >>
    /\ date_time_slots # << >>

(***************************************************************************)
(* main.py: the summarize_directory command.  The directory holds up to    *)
(* MaxFiles files; files is sorted(files), each file with its path,        *)
(* whether read_file can read it, and its text as text.split('\n').        *)
(* dir_pc is "idle" before the command, "processing" between two files of  *)
(* the loop, "summarizing" inside summarize_from_file, "workbook" after    *)
(* the loop, "raised" while an exception travels to the handler of the     *)
(* command, and "done" (exit code 0) or "failed" (exit code 1) at the end. *)
(***************************************************************************)
MaxFiles == 2

\* max_length=500 of the call in main.py
SummaryMaxLength == 500

\* the length up to which summarize_from_file keeps the whole content
SummaryChars == 500

GoodDoc == << EastFieldLine, SatSlotLine, WestFieldLine, SunSlotLine >>
TwoSlotDoc == << EastFieldLine, SatSlotLine, SunSlotLine >>
OrphanDoc == << SatSlotLine, EastFieldLine >>
EmptyDoc == << "" >>

FileContents ==
    { [ readable |-> TRUE, text |-> d ] :
        d \in { GoodDoc, TwoSlotDoc, OrphanDoc, EmptyDoc } }
    \cup { [ readable |-> FALSE, text |-> << >> ] }

FilePath(i) == "permits/" \o nat_str(i) \o ".txt"

RECURSIVE sorted(_)
\* sorted(files), the paths in the order of their numbers
sorted(S) ==
    IF S = {} THEN << >>
    ELSE LET m == CHOOSE x \in S : \A y \in S : x <= y
         IN  << m >> \o sorted(S \ {m})

\* len(content.split())
word_count(content) ==
    LET space(i) == Ch(content, i) \in Whitespace \cup {"\n"}
    IN  Cardinality({ i \in 1..Len(content) :
                        ~space(i) /\ (i = 1 \/ space(i - 1)) })

\* the dict summarize_from_file returns after the extraction has returned
summarize_result(f) ==
    LET content == join(f.text, "\n") IN
    [ file_path |-> f.path,
      file_type |-> "text",
      summary |-> IF Len(content) <= SummaryChars THEN content
                  ELSE slice_to(content, SummaryChars) \o "...",
      date_time_slots |-> date_time_slots,
      field_names |-> field_names,
      field_date_time_slots |-> field_date_time_slots,
      word_count |-> word_count(content),
      character_count |-> Len(content),
      pages |-> 1,
      success |-> TRUE ]

\* the dict summarize_from_file returns from its except clause
summarize_error(f, e) ==
    [ file_path |-> f.path, error |-> e, success |-> FALSE ]

LogEntry(level, msg, detail) == [ level |-> level, msg |-> msg, detail |-> detail ]

(***************************************************************************)
(* The workbook: Spreadsheet.worksheets as a dict from sheet name to the   *)
(* list of its rows.                                                       *)
(***************************************************************************)
NewSpreadsheet == << [ key |-> "Sheet1", val |-> << >> ] >>

sheet_exists(ws, name) == dict_has(ws, Some(name))

\* called only when the sheet does not exist
create_sheet(ws, name) == dict_set(ws, name, << >>)

\* switch_sheet(name) then add_row(row)
add_row(ws, name, row) ==
    dict_set(ws, name, Append(dict_get(ws, Some(name)), row))

\* del worksheets[name]
dict_del(d, name) == SelectSeq(d, LAMBDA item : item.key # name)

truncated_field_name(field_name) ==
    strip(slice_to(field_name, find(field_name, "(Athletic Field Use)")))

RECURSIVE add_slot_rows(_, _, _, _)
\* add_row(parse_spreadsheet_row(row, issued_date)), then the rows after it
add_parsed_row(parsed, ws, name, rest, issued_date) ==
    IF parsed.exc # "" THEN parsed
    ELSE add_slot_rows(add_row(ws, name, parsed.val), name, rest, issued_date)

\* for row in summary['field_date_time_slots'][field_name]
add_slot_rows(ws, name, rows, issued_date) ==
    IF rows = << >> THEN Returns(ws)
    ELSE IF find(rows[1], "--") < 1
    THEN add_parsed_row(parse_spreadsheet_row(rows[1], issued_date),
                        ws, name, Tail(rows), issued_date)
    ELSE add_slot_rows(ws, name, Tail(rows), issued_date)

RECURSIVE add_fields(_, _, _, _)
\* the fields after one whose rows have been added
add_more_fields(added, summary, rest, issued_date) ==
    IF added.exc # "" THEN added
    ELSE add_fields(added.val, summary, rest, issued_date)

\* the sheet of one field and its rows
add_field(ws, name, rows, issued_date) ==
    add_slot_rows(IF sheet_exists(ws, name) THEN ws ELSE create_sheet(ws, name),
                  name, rows, issued_date)

\* for field_name in summary['field_names']
add_fields(ws, summary, names, issued_date) ==
    IF names = << >> THEN Returns(ws)
    ELSE add_more_fields(
            add_field(ws, truncated_field_name(names[1]),
                      dict_get(summary.field_date_time_slots, Some(names[1])),
                      issued_date),
            summary, Tail(names), issued_date)

RECURSIVE add_summaries(_, _)
\* the summaries after one whose fields have been added
add_more_summaries(added, rest) ==
    IF added.exc # "" THEN added ELSE add_summaries(added.val, rest)

\* for i, summary in enumerate(summaries, 1)
add_summaries(ws, sums) ==
    IF sums = << >> THEN Returns(ws)
    ELSE IF "issued_date" \notin DOMAIN sums[1] THEN Raises("KeyError")
    ELSE add_more_summaries(
            add_fields(ws, sums[1], sums[1].field_names, sums[1]["issued_date"]),
            Tail(sums))

(***************************************************************************)
(* The steps of summarize_directory.                                       *)
(***************************************************************************)
\* os.listdir, the isfile filter and sorted(files)
DirStart ==
    /\ dir_pc = "idle"
    /\ \E denied \in BOOLEAN, S \in SUBSET (1..MaxFiles) :
         \E c \in [ S -> FileContents ] :
            IF denied
            THEN /\ files' = << >>
                 /\ dir_log' = Append(dir_log,
                                      LogEntry("warning", "Permission denied", ""))
            ELSE /\ files' = [ n \in 1..Cardinality(S) |->
                                 LET i == sorted(S)[n]
                                 IN  [ path |-> FilePath(i),
                                       readable |-> c[i].readable,
                                       text |-> c[i].text ] ]
                 /\ dir_log' = dir_log
    /\ file_idx' = 0
    /\ summaries' = << >>
    /\ dir_pc' = IF files' = << >> THEN "workbook" ELSE "processing"
    /\ UNCHANGED << extract_vars, call, previous, sum_vars, sheet_vars, dir_exc, workbook,
                    workbook_saved >>

\* TakeResult going on with the next file after a failed one
TakeResult_skip_failed(result) ==
    /\ IF ~result.success
       THEN /\ dir_log' = Append(dir_log,
                                 LogEntry("error", "Failed to summarize file",
                                          result.error))
            /\ summaries' = summaries
       ELSE /\ summaries' = Append(summaries, result)
            /\ dir_log' = dir_log
    /\ file_idx' = file_idx + 1
    /\ dir_pc' = IF file_idx + 1 < Len(files) THEN "processing" ELSE "workbook"
    /\ dir_exc' = dir_exc

\* what the loop does with the result of summarize_from_file
TakeResult(result) ==
    IF ~result.success
    THEN /\ dir_log' = Append(dir_log,
                              LogEntry("error", "Failed to summarize file",
                                       result.error))
         /\ dir_exc' = "Exit"
         /\ dir_pc' = "raised"
         /\ UNCHANGED << file_idx, summaries >>
    ELSE /\ summaries' = Append(summaries, result)
         /\ file_idx' = file_idx + 1
         /\ dir_pc' = IF file_idx + 1 < Len(files) THEN "processing"
                      ELSE "workbook"
         /\ UNCHANGED << dir_log, dir_exc >>

\* summarize_from_file(file, max_length=500) up to the call of the extractor
DirSummarizeFile ==
    /\ dir_pc = "processing"
    /\ IF files[file_idx + 1].readable
       THEN /\ Call(SummaryMaxLength)
            /\ dir_pc' = "summarizing"
            /\ UNCHANGED << file_idx, summaries, dir_log, dir_exc >>
       ELSE /\ TakeResult(summarize_error(files[file_idx + 1], "IOError"))
            /\ UNCHANGED << extract_vars, call >>
    /\ UNCHANGED << previous, sum_vars, sheet_vars, files, workbook, workbook_saved >>

\* the extractor takes the next line of the file
DirLine ==
    /\ dir_pc = "summarizing"
    /\ Len(lines) < Len(files[file_idx + 1].text)
    /\ ProcessLine(files[file_idx + 1].text[Len(lines) + 1])
    /\ UNCHANGED << previous, dir_vars, sum_vars, sheet_vars >>

\* the extractor returns: summarize_from_file returns its result
DirFileReturns ==
    /\ dir_pc = "summarizing"
    /\ Len(lines) = Len(files[file_idx + 1].text)
    /\ Return
    /\ TakeResult(summarize_result(files[file_idx + 1]))
    /\ UNCHANGED << previous, sum_vars, sheet_vars, files, workbook, workbook_saved >>

\* the extractor raised: summarize_from_file returns from its except clause
DirFileRaises ==
    /\ dir_pc = "summarizing"
    /\ pc = "KeyError"
    /\ TakeResult(summarize_error(files[file_idx + 1], "None"))
    /\ UNCHANGED << extract_vars, call, previous, sum_vars, sheet_vars, files, workbook,
                    workbook_saved >>

\* if summaries: the sheets, the rows, del worksheets["Sheet1"], save_to_excel
DirBuildWorkbook ==
    /\ dir_pc = "workbook"
    /\ IF summaries = << >>
       THEN /\ dir_pc' = "done"
            /\ dir_log' = Append(dir_log,
                                 LogEntry("info", "Successfully processed directory", ""))
            /\ UNCHANGED << dir_exc, workbook, workbook_saved >>
       ELSE LET built == add_summaries(NewSpreadsheet, summaries) IN
            IF built.exc # ""
            THEN /\ dir_exc' = built.exc
                 /\ dir_pc' = "raised"
                 /\ UNCHANGED << dir_log, workbook, workbook_saved >>
            ELSE /\ workbook' = dict_del(built.val, "Sheet1")
                 /\ workbook_saved' = TRUE
                 /\ dir_pc' = "done"
                 /\ dir_log' = Append(dir_log,
                                      LogEntry("info", "Successfully processed directory", ""))
                 /\ dir_exc' = dir_exc
    /\ UNCHANGED << extract_vars, call, previous, sum_vars, sheet_vars, files, file_idx, summaries >>

\* except Exception as e: logger.error(...); ctx.exit(1)
DirHandler ==
    /\ dir_pc = "raised"
    /\ dir_log' = Append(dir_log,
                         LogEntry("error", "Error processing directory", dir_exc))
    /\ dir_pc' = "failed"
    /\ UNCHANGED << extract_vars, call, previous, sum_vars, sheet_vars, files, file_idx, summaries,
                    dir_exc, workbook, workbook_saved >>

NextDir ==
    \/ DirStart
    \/ DirSummarizeFile
    \/ DirLine
    \/ DirFileReturns
    \/ DirFileRaises
    \/ DirBuildWorkbook
    \/ DirHandler

SpecDir == Init /\ [][NextDir]_vars

(***************************************************************************)
(* Properties of summarize_directory.                                      *)
(***************************************************************************)
Ended == dir_pc \in {"done", "failed"}

\* the rows of all sheets of the workbook
WorkbookRows ==
    UNION { { workbook[i].val[n] : n \in 1..Len(workbook[i].val) } :
              i \in 1..Len(workbook) }

\* the log entries that report a file that could not be summarized
FailedFileEntries ==
    { i \in 1..Len(dir_log) : dir_log[i].msg = "Failed to summarize file" }

DocumentFailed == FailedFileEntries # {}

\* C19: when every document of the directory has been summarized
\* successfully, the command ends with the workbook written, and every row
\* of a sheet carries the issued date held by the summary of a document.
C19_RowsCarryIssuedDate ==
    (Ended /\ summaries # << >> /\ Len(summaries) = Len(files)) =>
        /\ dir_pc = "done"
        /\ workbook_saved
        /\ \A row \in WorkbookRows :
              \E i \in 1..Len(summaries) :
                 /\ "issued_date" \in DOMAIN summaries[i]
                 /\ row["issued-date"] = summaries[i]["issued_date"]

\* C20 as stated: a document that fails is reported and the batch goes on,
\* so that when the command ends every file has either a summary or a
\* report of its failure.
C20_BatchNotAborted ==
    (Ended /\ DocumentFailed) =>
        Len(summaries) + Cardinality(FailedFileEntries) = Len(files)

\* C20: a document that fails is reported once and aborts the batch: the
\* loop stops at that file, no later file is summarized and no workbook is
\* written; an exception on its way out of the loop or of the workbook
\* phase reaches only the handler of the command, and a command that has
\* failed has reported the exception last and has written no workbook.
C20_FailureAbortsBatch ==
    /\ DocumentFailed =>
          /\ dir_pc \in {"raised", "failed"}
          /\ Cardinality(FailedFileEntries) = 1
          /\ file_idx < Len(files)
          /\ Len(summaries) = file_idx
          /\ ~workbook_saved
    /\ dir_exc # "" =>
          /\ dir_pc \in {"raised", "failed"}
          /\ ~workbook_saved
    /\ dir_pc = "failed" =>
          /\ dir_exc # ""
          /\ dir_log[Len(dir_log)] =
                LogEntry("error", "Error processing directory", dir_exc)

\* the first of two files failed: the command has ended and the second file,
\* a document that can be summarized, was never taken
C20_Witness ==
    /\ dir_pc = "failed"
    /\ DocumentFailed
    /\ Len(files) = 2
    /\ file_idx = 0
    /\ files[2].readable
    /\ files[2].text = GoodDoc

(***************************************************************************)
(* C27, C28: how the three collections of the extractor fit together.      *)
(***************************************************************************)
RECURSIVE FirstAppearances(_)
\* the entries of a list in the order of their first appearance
FirstAppearances(lst) ==
    IF lst = << >> THEN << >>
    ELSE LET front == FirstAppearances(SubSeq(lst, 1, Len(lst) - 1))
             last == lst[Len(lst)]
         IN  IF \E i \in 1..Len(front) : front[i] = last THEN front
             ELSE Append(front, last)

HasRepeat(lst) == \E i, j \in 1..Len(lst) : i # j /\ lst[i] = lst[j]

\* C27: after every processed line the keys of field_date_time_slots are
\* the entries of field_names, and the keys stand in the order in which the
\* entries first appear in field_names.
C27_KeysFollowFieldNames ==
    pc \in {"loop", "returned", "KeyError"} =>
        /\ { field_date_time_slots[i].key : i \in 1..Len(field_date_time_slots) }
              = { field_names[i] : i \in 1..Len(field_names) }
        /\ dict_keys(field_date_time_slots) = FirstAppearances(field_names)

\* the first header line was registered again after a second one
C27_Witness ==
    /\ pc = "loop"
    /\ Len(field_names) = 3
    /\ field_names[1] = field_names[3]
    /\ field_names[1] # field_names[2]
    /\ Len(field_date_time_slots) = 2

RECURSIVE FieldListsJoined(_, _)
\* the lists of d under the keys of names, one after the other
FieldListsJoined(d, names) ==
    IF names = << >> THEN << >>
    ELSE dict_get(d, Some(Head(names))) \o FieldListsJoined(d, Tail(names))

RECURSIVE TotalFiled(_)
\* the sum of the lengths of the lists of d
TotalFiled(d) ==
    IF d = << >> THEN 0 ELSE Len(Head(d).val) + TotalFiled(Tail(d))

\* C28: when extraction returns and no registered header repeats, the
\* per-field lists joined in field_names order are exactly date_time_slots;
\* when a registered header repeats, the per-field lists hold together at
\* most as many lines as date_time_slots.
C28_FieldListsPartitionSlots ==
    pc = "returned" =>
        IF HasRepeat(field_names)
        THEN TotalFiled(field_date_time_slots) <= Len(date_time_slots)
        ELSE FieldListsJoined(field_date_time_slots, field_names)
                = date_time_slots

\* two fields, the first with two different slot lines, the second with one
C28_Witness ==
    /\ pc = "returned"
    /\ ~HasRepeat(field_names)
    /\ Len(field_names) = 2
    /\ Len(dict_get(field_date_time_slots, Some(field_names[1]))) = 2
    /\ Len(dict_get(field_date_time_slots, Some(field_names[2]))) = 1
    /\ date_time_slots[1] # date_time_slots[2]

\* a header was registered twice and the slot line filed before the second
\* registration was lost from its list
C28_RepeatWitness ==
    /\ pc = "returned"
    /\ HasRepeat(field_names)
    /\ TotalFiled(field_date_time_slots) < Len(date_time_slots)

(***************************************************************************)
(* C22, C29: the tokens of a fragment and when a row is returned.          *)
(***************************************************************************)
\* a fragment written with single spaces: its empty tokens left out
SingleSpaced(f) ==
    [ f EXCEPT !.tokens = SelectSeq(f.tokens, LAMBDA t : t # "") ]

SingleSpacedRow(elems) ==
    [ i \in 1..Len(elems) |-> IF i = 1 THEN elems[1] ELSE SingleSpaced(elems[i]) ]

\* C22: a fragment whose tokens are separated by runs of more than one
\* space gives the same start, end and cost as the same fragment written
\* with single spaces (" 2025  8:00 AM" gives start "8:00").
C22_SpacingIrrelevant ==
    /\ IsTimeCall =>
          call.result = extract_time(FragmentText(SingleSpaced(call.frag)))
    /\ IsRowCall =>
          call.result = parse_spreadsheet_row(RowText(SingleSpacedRow(call.elems)),
                                              call.issued_date)

\* the pieces of an element, trimmed, between single spaces
TokensOf(elm) == split(strip(elm), " ")

\* the second token, if the third is "PM", is an integer followed by ':'
PMHourReadable(f) ==
    TokensOf(FragmentText(f))[3] = "PM" => (f.hour_is_int /\ f.has_colon)

\* the line has what parse_spreadsheet_row reads from it
RowReadable(elems) ==
    /\ Len(elems) >= 5
    /\ Len(TokensOf(FragmentText(elems[3]))) >= 3
    /\ Len(TokensOf(FragmentText(elems[5]))) >= 5
    /\ PMHourReadable(elems[3])
    /\ PMHourReadable(elems[5])

\* C29: parse_spreadsheet_row returns a row if and only if the line has at
\* least 5 comma-separated elements, element[2] has at least 3 and
\* element[4] at least 5 space-separated tokens, and in each of the two
\* whose third token is "PM" the second token has a ':' preceded by an
\* integer; in every other case it raises.
C29_ReturnsIffReadable ==
    IsRowCall =>
        /\ Len(split(call.row_data, ",")) = Len(call.elems)
        /\ call.result.exc = "" <=> RowReadable(call.elems)
        /\ call.result.exc = "" => DOMAIN call.result.val = RowKeys
        /\ call.result.exc # "" => call.result.val = ""

\* a row returned from a line with PM in both timestamps
C29_Witness ==
    /\ IsRowCall
    /\ call.result.exc = ""
    /\ IsStamp(call.elems[3], "PM")
    /\ IsStamp(call.elems[5], "PM")
    /\ Len(call.elems) = MaxElems

(***************************************************************************)
(* SummarizePermit.summarize_from_text and summarize_from_file: one call   *)
(* with its text (as text.split('\n')), its max_length, and for a file     *)
(* whether read_file can read it.  sum_pc is "idle" before the call,       *)
(* "extracting" inside _extract_basic_summary and "returned" after it.     *)
(***************************************************************************)
RECURSIVE repeat(_, _)
\* s * n
repeat(s, n) == IF n = 0 THEN "" ELSE s \o repeat(s, n - 1)

\* a document of more than 500 characters
LongDoc == << EastFieldLine, repeat("permit conditions apply ", 21) >>

SumTexts == { GoodDoc, TwoSlotDoc, OrphanDoc, EmptyDoc, LongDoc }
SumFiles == FileContents \cup { [ readable |-> TRUE, text |-> LongDoc ] }
SumMaxLengths == { 0, 1, 2, SummaryMaxLength }

\* summarize_text_error that answers empty collections next to the error
summarize_text_error_with_lists(title, e) ==
    [ title |-> title, error |-> e, success |-> FALSE,
      date_time_slots |-> << >>, field_names |-> << >>,
      field_date_time_slots |-> << >> ]

\* the dict summarize_from_text returns from its except clause
summarize_text_error(title, e) ==
    [ title |-> title, error |-> e, success |-> FALSE ]

\* the dict summarize_from_text returns after the extraction has returned
summarize_text_result(text, title) ==
    LET content == join(text, "\n") IN
    [ title |-> title,
      summary |-> IF Len(content) <= SummaryChars THEN content
                  ELSE slice_to(content, SummaryChars) \o "...",
      date_time_slots |-> date_time_slots,
      field_names |-> field_names,
      field_date_time_slots |-> field_date_time_slots,
      word_count |-> word_count(content),
      character_count |-> Len(content),
      success |-> TRUE ]

SumFromText(text, m) ==
    /\ sum_pc = "idle"
    /\ sum_call' = [ fn |-> "summarize_from_text", text |-> text,
                     title |-> "Permit Document", readable |-> TRUE,
                     max_length |-> m ]
    /\ Call(m)
    /\ sum_pc' = "extracting"
    /\ sum_result' = None
    /\ UNCHANGED << previous, dir_vars, sheet_vars >>

SumFromFile(f, m) ==
    /\ sum_pc = "idle"
    /\ sum_call' = [ fn |-> "summarize_from_file", text |-> f.text,
                     path |-> FilePath(1), readable |-> f.readable,
                     max_length |-> m ]
    /\ IF f.readable
       THEN /\ Call(m)
            /\ sum_pc' = "extracting"
            /\ sum_result' = None
       ELSE /\ sum_result' = Some(summarize_error([ path |-> FilePath(1) ],
                                                  "IOError"))
            /\ sum_pc' = "returned"
            /\ UNCHANGED << extract_vars, call >>
    /\ UNCHANGED << previous, dir_vars, sheet_vars >>

\* the extractor takes the next line of the text
SumLine ==
    /\ sum_pc = "extracting"
    /\ Len(lines) < Len(sum_call.text)
    /\ ProcessLine(sum_call.text[Len(lines) + 1])
    /\ UNCHANGED << previous, dir_vars, sum_vars, sheet_vars >>

\* the extractor returns: the call returns its result
SumReturns ==
    /\ sum_pc = "extracting"
    /\ Len(lines) = Len(sum_call.text)
    /\ Return
    /\ sum_result' =
          Some(IF sum_call.fn = "summarize_from_file"
               THEN summarize_result([ path |-> sum_call.path,
                                       text |-> sum_call.text ])
               ELSE summarize_text_result(sum_call.text, sum_call.title))
    /\ sum_pc' = "returned"
    /\ UNCHANGED << previous, dir_vars, sum_call, sheet_vars >>

\* the extractor raised: the call returns from its except clause
SumRaises ==
    /\ sum_pc = "extracting"
    /\ pc = "KeyError"
    /\ sum_result' =
          Some(IF sum_call.fn = "summarize_from_file"
               THEN summarize_error([ path |-> sum_call.path ], "None")
               ELSE summarize_text_error(sum_call.title, "None"))
    /\ sum_pc' = "returned"
    /\ UNCHANGED << extract_vars, call, previous, dir_vars, sum_call,
                    sheet_vars >>

NextSum ==
    \/ \E text \in SumTexts, m \in SumMaxLengths : SumFromText(text, m)
    \/ \E f \in SumFiles, m \in SumMaxLengths : SumFromFile(f, m)
    \/ SumLine
    \/ SumReturns
    \/ SumRaises

SpecSum == Init /\ [][NextSum]_vars

\* C21: the summary text a call returns has at most max_length characters.
C21_SummaryWithinMaxLength ==
    (sum_pc = "returned" /\ sum_result[1].success) =>
        Len(sum_result[1].summary) <= sum_call.max_length

\* the call met a failure while reading or extracting
SumFailed ==
    \/ sum_call.fn = "summarize_from_file" /\ ~sum_call.readable
    \/ pc = "KeyError"

SumSlotKeys == { "date_time_slots", "field_names", "field_date_time_slots" }

\* C23: a call never ends with an exception: an extractor that raised is
\* followed by the return of the call, and a call that met a failure while
\* reading or extracting returns a dict with success False and an error
\* string and without date_time_slots, field_names or
\* field_date_time_slots; a call that met none returns success True.
C23_FailureIsReturned ==
    /\ (sum_pc # "idle" /\ pc = "KeyError") => ENABLED SumRaises \/ sum_pc = "returned"
    /\ sum_pc = "returned" =>
          /\ sum_result # None
          /\ sum_result[1].success = ~SumFailed
          /\ SumFailed =>
                /\ DOMAIN sum_result[1] \cap SumSlotKeys = {}
                /\ "error" \in DOMAIN sum_result[1]
                /\ sum_result[1].error \in {"None", "IOError"}

\* a text whose first line is a slot line: the missing-key failure, returned
C23_Witness ==
    /\ sum_pc = "returned"
    /\ sum_call.fn = "summarize_from_text"
    /\ pc = "KeyError"
    /\ sum_result[1].error = "None"

(***************************************************************************)
(* utils/spreadsheet.py: one Spreadsheet() object.  worksheets maps a      *)
(* sheet name to a list object; lists holds the rows of every list object  *)
(* ever made, so that self.data, a reference, is the number of the object  *)
(* it refers to.  A call that raises records its exception in sheet_call.  *)
(***************************************************************************)
MaxLists == 3
MaxRows == 1

SheetNames == { "Sheet1", "East Field", "West Field" }
NoteRow == "note" :> "closed"
SheetRows == { ExampleRow, NoteRow }

\* every column name of the rows, in sorted() order
HeaderOrder == << "cost", "date", "day", "end", "issued-date", "note", "start" >>

\* sorted(list(keys))
sorted_headers(keys) ==
    SelectSeq(HeaderOrder, LAMBDA h : h \in keys)

\* _extract_headers on the rows of the current sheet
extract_headers(rows) ==
    sorted_headers(UNION { DOMAIN rows[i] : i \in 1..Len(rows) })

\* _update_current_data: self.data = self.worksheets[self.current_sheet]
update_current_data(ws, cur) == dict_get(ws, Some(cur))

SheetRaises(fn, name) ==
    /\ sheet_call' = [ fn |-> fn, name |-> name, exc |-> "ValueError" ]
    /\ UNCHANGED << worksheets, current_sheet, data, lists, headers >>

\* create_sheet replacing a sheet that exists by an empty one
CreateSheet_overwrites(name) ==
    /\ Len(lists) < MaxLists
    /\ lists' = Append(lists, << >>)
    /\ worksheets' = dict_set(worksheets, name, Len(lists) + 1)
    /\ current_sheet' = name
    /\ data' = update_current_data(worksheets', name)
    /\ headers' = extract_headers(lists'[data'])
    /\ sheet_call' = [ fn |-> "create_sheet", name |-> name, exc |-> "" ]

CreateSheet(name) ==
    IF dict_has(worksheets, Some(name))
    THEN SheetRaises("create_sheet", name)
    ELSE /\ Len(lists) < MaxLists
         /\ lists' = Append(lists, << >>)
         /\ worksheets' = dict_set(worksheets, name, Len(lists) + 1)
         /\ current_sheet' = name
         /\ data' = update_current_data(worksheets', name)
         /\ headers' = extract_headers(lists'[data'])
         /\ sheet_call' = [ fn |-> "create_sheet", name |-> name, exc |-> "" ]

SwitchSheet(name) ==
    IF ~dict_has(worksheets, Some(name))
    THEN SheetRaises("switch_sheet", name)
    ELSE /\ current_sheet' = name
         /\ data' = update_current_data(worksheets, name)
         /\ headers' = extract_headers(lists[data'])
         /\ sheet_call' = [ fn |-> "switch_sheet", name |-> name, exc |-> "" ]
         /\ UNCHANGED << worksheets, lists >>

\* remove_sheet leaving self.data on the list of the removed sheet
RemoveSheet_keeps_data(name) ==
    IF ~dict_has(worksheets, Some(name)) \/ Len(worksheets) <= 1
    THEN SheetRaises("remove_sheet", name)
    ELSE /\ worksheets' = dict_del(worksheets, name)
         /\ current_sheet' = IF current_sheet = name THEN worksheets'[1].key
                             ELSE current_sheet
         /\ sheet_call' = [ fn |-> "remove_sheet", name |-> name, exc |-> "" ]
         /\ UNCHANGED << data, headers, lists >>

RemoveSheet(name) ==
    IF ~dict_has(worksheets, Some(name)) \/ Len(worksheets) <= 1
    THEN SheetRaises("remove_sheet", name)
    ELSE /\ worksheets' = dict_del(worksheets, name)
         /\ IF current_sheet = name
            THEN /\ current_sheet' = worksheets'[1].key
                 /\ data' = update_current_data(worksheets', current_sheet')
                 /\ headers' = extract_headers(lists[data'])
            ELSE UNCHANGED << current_sheet, data, headers >>
         /\ sheet_call' = [ fn |-> "remove_sheet", name |-> name, exc |-> "" ]
         /\ UNCHANGED lists

\* self.data.append(row), then the headers the row brings
AddRow(row) ==
    /\ Len(lists[data]) < MaxRows
    /\ lists' = [ lists EXCEPT ![data] = Append(@, row) ]
    /\ headers' = headers \o
          sorted_headers(DOMAIN row \ { headers[i] : i \in 1..Len(headers) })
    /\ sheet_call' = [ fn |-> "add_row", row |-> row, exc |-> "" ]
    /\ UNCHANGED << worksheets, current_sheet, data >>

SheetRest == << extract_vars, call, previous, dir_vars, sum_vars >>

NextSheet ==
    \/ \E name \in SheetNames : CreateSheet(name) /\ UNCHANGED SheetRest
    \/ \E name \in SheetNames : SwitchSheet(name) /\ UNCHANGED SheetRest
    \/ \E name \in SheetNames : RemoveSheet(name) /\ UNCHANGED SheetRest
    \/ \E row \in SheetRows : AddRow(row) /\ UNCHANGED SheetRest

SpecSheet == Init /\ [][NextSheet]_vars

(***************************************************************************)
(* C25, C26: the Spreadsheet object under its sheet and row calls.         *)
(***************************************************************************)
\* the call of this step raised ValueError and the object is as it was
RaisedAndUntouched ==
    /\ sheet_call'.exc = "ValueError"
    /\ UNCHANGED << worksheets, current_sheet, data, lists, headers >>

\* C25: create_sheet with a name that exists, and switch_sheet or
\* remove_sheet with a name that does not exist, raise ValueError and leave
\* worksheets, current_sheet and the rows of every sheet unchanged.
C25_RaisesAndLeavesUnchanged ==
    [][ /\ (sheet_call'.fn = "create_sheet"
            /\ dict_has(worksheets, Some(sheet_call'.name)))
           => RaisedAndUntouched
        /\ (sheet_call'.fn \in {"switch_sheet", "remove_sheet"}
            /\ ~dict_has(worksheets, Some(sheet_call'.name)))
           => RaisedAndUntouched ]_vars

\* remove_sheet of a name that is no sheet, on an object of two sheets
\* with a row in the current one
C25_Witness ==
    /\ sheet_call.fn = "remove_sheet"
    /\ sheet_call.exc = "ValueError"
    /\ ~dict_has(worksheets, Some(sheet_call.name))
    /\ Len(worksheets) = 2
    /\ lists[data] # << >>

\* worksheets is not empty, current_sheet is one of its keys, and data is
\* the list of the current sheet
CurrentSheetHeld ==
    /\ worksheets # << >>
    /\ dict_has(worksheets, Some(current_sheet))
    /\ data = dict_get(worksheets, Some(current_sheet))

SheetsNamed(name) == { i \in 1..Len(workbook) : workbook[i].key = name }

\* the slot lines the command reads for a sheet name: summary i, entry n of
\* its field_names, line j of the list of that field
SlotsForSheet(name) ==
    UNION { UNION { { << i, n, j >> :
                        j \in 1..Len(dict_get(summaries[i].field_date_time_slots,
                                              Some(summaries[i].field_names[n]))) } :
                    n \in { m \in 1..Len(summaries[i].field_names) :
                              truncated_field_name(summaries[i].field_names[m])
                                 = name } } :
            i \in 1..Len(summaries) }

\* C24: when the documents of the directory have been summarized, every
\* header line has its sheet, named by the text before "(Athletic Field
\* Use)" trimmed; header lines with the same truncated name share that one
\* sheet, no duplicate-name error ends the command, and the sheet holds one
\* row for each slot line of those headers.
C24_OneSheetPerTruncatedName ==
    (Ended /\ summaries # << >> /\ Len(summaries) = Len(files)) =>
        /\ dir_exc # "ValueError"
        /\ \A i \in 1..Len(summaries) :
              \A n \in 1..Len(summaries[i].field_names) :
                 LET name == truncated_field_name(summaries[i].field_names[n])
                 IN  /\ Cardinality(SheetsNamed(name)) = 1
                     /\ Len(dict_get(workbook, Some(name)))
                           = Cardinality(SlotsForSheet(name))

====
